---- MODULE Spec2Model ----
(***************************************************************************)
(* Bring-up of the SNAP board (package snapctl): the startup routine       *)
(* programs the FPGA, brings up the 10 GbE core, writes the static         *)
(* registers, calibrates the ADCs and estimates the FPGA clock.            *)
(*                                                                         *)
(* The run is a straight-line program.  Every statement that touches the   *)
(* board is one action; the board's answers (link word, lock word, the     *)
(* failure sets of the alignment passes) are chosen by the environment,    *)
(* and any call into the board may raise a transport error.  ops is the    *)
(* log of the calls made on the board, in order, and log the lines the     *)
(* program logged.                                                         *)
(***************************************************************************)
EXTENDS Integers, Sequences, FiniteSets, TLC

VARIABLES
    pc,           \* the statement of startup about to execute
    exc,          \* the exception that ended the run, "none" while it runs
    ops,          \* the calls made on the board so far
    log,          \* the lines logged by the program itself
    regs,         \* the FPGA's software registers
    adcRet,       \* what setup_adcs returned: "pending", "False" or "None"
    gbeStatus,    \* client.gbes: "none", "unknown" (no such core), "known"
    adcStatus,    \* client.adc_devices: "none", "unknown", "noadc", "known"
    channels,     \* the --channels argument
    dest_ip,      \* the --dest_ip argument, as its four octets
    gain,         \* the argument of set_requant_gain, a rational [n, d]
    linkup,       \* the word the board holds in gbe1_linkup
    tx_overflow,  \* the board's transmit overflow counter
    settled,      \* the 10 GbE core has had its boot time since it was programmed
    adcSel,       \* the ADC chips selected
    demux,        \* the demux factor, 0 when not set
    clksw         \* the clock source switch, "unset" or "b"

inputs == <<gbeStatus, adcStatus, channels, dest_ip, gain>>
netHw  == <<linkup, tx_overflow, settled>>
adcHw  == <<adcSel, demux, clksw>>
out    == <<log, adcRet>>
vars   == <<pc, exc, ops, log, regs, adcRet, gbeStatus, adcStatus, channels,
            dest_ip, gain, linkup, tx_overflow, settled, adcSel, demux, clksw>>

----------------------------------------------------------------------------
(* Bounds of the model *)

MaxLinkWord == 2    \* gbe1_linkup reads 0..MaxLinkWord
MaxLockWord == 2    \* ADC16_LOCKED reads 0..MaxLockWord
MaxOverflow == 1    \* the overflow counter holds 0..MaxOverflow
NumLanes    == 1    \* lanes 0..NumLanes-1 can fail an alignment pass
GainMargin  == 12   \* gains tried lie within GainMargin/d of 0 and of 2047

Lanes    == 0 .. (NumLanes - 1)
AllChips == {0, 1, 2}
Channels == {1, 2, 4}
DestIps  == {<<10, 0, 0, 1>>, <<127, 0, 0, 1>>}

----------------------------------------------------------------------------
(* Program constants *)

FftShift    == 4095
DestPort    == 60000
CorePort    == 60000
AdcGain     == 4
GainLimit   == 2047
GainScale   == 32
GainIntBits == 11
GainFracBits == 5

A1_2 == 0
B1_2 == 2

RegNames == {"tx_en", "tx_rst", "dest_port", "dest_ip", "fft_shift",
             "ch_1_sel", "ch_2_sel", "requant_gain"}

\* the registers of a freshly programmed FPGA
PowerOnRegs == [r \in RegNames |-> 0]

\* the gain startup passes to set_requant_gain
StartupGain == [n |-> 1, d |-> 1]

----------------------------------------------------------------------------
(* Records of the two logs *)

\* a call on the board: its name, the register or core it names, its integer
\* argument or result, its set argument or result, and the chip selection and
\* demux factor in force when it was made
Op(name, reg, val, set) ==
    [op |-> name, reg |-> reg, val |-> val, lanes |-> set,
     sel |-> adcSel, demux |-> demux]
Line(level, msg, set)   == [level |-> level, msg |-> msg, lanes |-> set]

\* IpAddress.str2ip: the four octets as one big-endian integer
str2ip(o) == ((o[1] * 256 + o[2]) * 256 + o[3]) * 256 + o[4]

round_truncates(n, d) == n \div d

\* Python's round() of the rational n/d (d > 0): to nearest, ties to even
round(n, d) ==
    LET q == n \div d
        r == n % d
    IN  IF 2 * r < d THEN q
        ELSE IF 2 * r > d THEN q + 1
        ELSE IF q % 2 = 0 THEN q ELSE q + 1

GainInRange_closed(g) == 0 <= g.n /\ g.n <= GainLimit * g.d

\* the assertion of set_requant_gain, on the rational g
GainInRange(g) == 0 < g.n /\ g.n < GainLimit * g.d

NotLocked_never(word) == word < 0

\* the test "not adc.getWord(...)"
NotLocked(word) == word = 0

\* the test "client.read_int(...) == 1"
LinkIsUp(word) == word = 1

----------------------------------------------------------------------------
(* Control flow *)

StartupStages_static_first ==
    <<"connect", "fft_shift", "tengbe_check", "adc_check", "estimate_clock">>

\* the calls of startup, in order, each named by its first statement
StartupStages == <<"connect", "tengbe_check", "fft_shift", "adc_check",
                   "estimate_clock">>

\* where startup continues when the call that began at entry returns
Return(entry) ==
    LET i == CHOOSE k \in DOMAIN StartupStages : StartupStages[k] = entry
    IN  StartupStages[i + 1]

Goto(label) == pc' = label /\ UNCHANGED exc
Raise(e)    == pc' = "raised" /\ exc' = e
Call(o)     == ops' = Append(ops, o)
Log(l)      == log' = Append(log, l)

\* client.write_int
write_int(reg, val) ==
    /\ Call(Op("write_int", reg, val, {}))
    /\ regs' = [regs EXCEPT ![reg] = val]

\* the statements that call into the board
HwSteps == {"connect", "upload", "get_system_information",
            "tx_disable", "configure_core", "dest_port", "dest_ip", "arp",
            "tx_rst_1", "tx_rst_0", "tx_enable", "linkup",
            "fft_shift", "chan_1_select", "chan_2_select", "requant_gain",
            "clksw_1", "adc_reset", "select_all_1", "adc_init", "select_12",
            "term", "drive", "select_all_2", "operating_mode",
            "prog_user_image", "select_all_3", "clksw_2", "demux_full",
            "lock_check", "align_line", "align_frame", "ramp_test",
            "restore_demux", "select_input", "set_gain", "estimate_clock"}

Init ==
    /\ pc = StartupStages[1]
    /\ exc = "none"
    /\ ops = <<>>
    /\ log = <<>>
    /\ regs = PowerOnRegs
    /\ adcRet = "pending"
    /\ gbeStatus \in {"none", "unknown", "known"}
    /\ adcStatus \in {"none", "unknown", "noadc", "known"}
    /\ channels \in Channels
    /\ dest_ip \in DestIps
    /\ gain = StartupGain
    /\ linkup = 0
    /\ tx_overflow = 0
    /\ settled = FALSE
    /\ adcSel = {}
    /\ demux = 0
    /\ clksw = "unset"

----------------------------------------------------------------------------
(* program_snap *)

Connect ==
    /\ pc = "connect"
    /\ Call(Op("connect", "", 0, {}))
    /\ Goto("upload")
    /\ UNCHANGED <<regs, inputs, netHw, adcHw, out>>

\* programming the FPGA clears its registers and the state of its cores
Upload ==
    /\ pc = "upload"
    /\ Call(Op("upload_to_ram_and_program", "", 0, {}))
    /\ regs' = PowerOnRegs
    /\ linkup' = 0 /\ tx_overflow' = 0 /\ settled' = FALSE
    /\ adcSel' = {} /\ demux' = 0 /\ clksw' = "unset"
    /\ Log(Line("success", "SNAP programmed", {}))
    /\ Goto("get_system_information")
    /\ UNCHANGED <<inputs, adcRet>>

GetSystemInformation ==
    /\ pc = "get_system_information"
    /\ Call(Op("get_system_information", "", 0, {}))
    /\ Goto(Return("connect"))
    /\ UNCHANGED <<regs, inputs, netHw, adcHw, out>>

----------------------------------------------------------------------------
(* setup_tengbe *)

TengbeCheck ==
    /\ pc = "tengbe_check"
    /\ CASE gbeStatus = "none"    -> Raise("AssertionError: no GbE cores")
         [] gbeStatus = "unknown" -> Raise("KeyError: unknown 10 GbE core")
         [] OTHER                 -> Goto("tx_disable")
    /\ UNCHANGED <<ops, regs, inputs, netHw, adcHw, out>>

TxDisable ==
    /\ pc = "tx_disable"
    /\ write_int("tx_en", 0)
    /\ Goto("configure_core")
    /\ UNCHANGED <<inputs, netHw, adcHw, out>>

ConfigureCore ==
    /\ pc = "configure_core"
    /\ Call(Op("configure_core", "gbe1", CorePort, {}))
    /\ Goto("dest_port")
    /\ UNCHANGED <<regs, inputs, netHw, adcHw, out>>

WriteDestPort ==
    /\ pc = "dest_port"
    /\ write_int("dest_port", DestPort)
    /\ Goto("dest_ip")
    /\ UNCHANGED <<inputs, netHw, adcHw, out>>

WriteDestIp ==
    /\ pc = "dest_ip"
    /\ write_int("dest_ip", str2ip(dest_ip))
    /\ Goto("arp")
    /\ UNCHANGED <<inputs, netHw, adcHw, out>>

SetArp ==
    /\ pc = "arp"
    /\ Call(Op("set_single_arp_entry", "gbe1", str2ip(dest_ip), {}))
    /\ Goto("tx_rst_1")
    /\ UNCHANGED <<regs, inputs, netHw, adcHw, out>>

TxRstAssert ==
    /\ pc = "tx_rst_1"
    /\ write_int("tx_rst", 1)
    /\ Goto("tx_rst_0")
    /\ UNCHANGED <<inputs, netHw, adcHw, out>>

TxRstDeassert_missing ==
    /\ pc = "tx_rst_0"
    /\ Goto("tx_enable")
    /\ UNCHANGED <<ops, regs, inputs, netHw, adcHw, out>>

TxRstDeassert ==
    /\ pc = "tx_rst_0"
    /\ write_int("tx_rst", 0)
    /\ Goto("tx_enable")
    /\ UNCHANGED <<inputs, netHw, adcHw, out>>

TxEnable ==
    /\ pc = "tx_enable"
    /\ write_int("tx_en", 1)
    /\ Goto("settle")
    /\ UNCHANGED <<inputs, netHw, adcHw, out>>

SettleWait_skipped ==
    /\ pc = "settle"
    /\ Goto("linkup")
    /\ UNCHANGED <<ops, regs, inputs, netHw, adcHw, out>>

\* time.sleep(2): the core boots; the link word and the overflow counter
\* take whatever values the board and the cabling give them
SettleWait ==
    /\ pc = "settle"
    /\ linkup' \in 0 .. MaxLinkWord
    /\ tx_overflow' \in 0 .. MaxOverflow
    /\ settled' = TRUE
    /\ Goto("linkup")
    /\ UNCHANGED <<ops, regs, inputs, adcHw, out>>

\* the link check: logs when the link is up and returns either way
ReadLinkup ==
    /\ pc = "linkup"
    /\ Call(Op("read_int", "gbe1_linkup", linkup, {}))
    /\ IF LinkIsUp(linkup)
         THEN Log(Line("success", "10 GbE link is up", {}))
         ELSE UNCHANGED log
    /\ Goto(Return("tengbe_check"))
    /\ UNCHANGED <<regs, inputs, netHw, adcHw, adcRet>>

----------------------------------------------------------------------------
(* the static registers *)

WriteFftShift ==
    /\ pc = "fft_shift"
    /\ write_int("fft_shift", FftShift)
    /\ Goto("chan_1_select")
    /\ UNCHANGED <<inputs, netHw, adcHw, out>>

chan_1_select ==
    /\ pc = "chan_1_select"
    /\ write_int("ch_1_sel", A1_2)
    /\ Goto("chan_2_select")
    /\ UNCHANGED <<inputs, netHw, adcHw, out>>

chan_2_select ==
    /\ pc = "chan_2_select"
    /\ write_int("ch_2_sel", B1_2)
    /\ Goto("requant_gain")
    /\ UNCHANGED <<inputs, netHw, adcHw, out>>

\* set_requant_gain(client, g), continuing at next when it returns
set_requant_gain(g, next) ==
    /\ IF GainInRange(g)
         THEN /\ write_int("requant_gain", round(g.n * GainScale, g.d))
              /\ Goto(next)
         ELSE /\ Raise("AssertionError: gain")
              /\ UNCHANGED <<ops, regs>>
    /\ UNCHANGED <<inputs, netHw, adcHw, out>>

SetRequantGain ==
    /\ pc = "requant_gain"
    /\ set_requant_gain(gain, Return("fft_shift"))

----------------------------------------------------------------------------
(* setup_adcs *)

AdcCheck ==
    /\ pc = "adc_check"
    /\ CASE adcStatus = "none"    -> Raise("AssertionError: no ADCs")
         [] adcStatus = "unknown" -> Raise("AssertionError: unknown ADC")
         [] adcStatus = "noadc"   -> Raise("AssertionError: adc.adc is None")
         [] OTHER                 -> Goto("clksw_1")
    /\ UNCHANGED <<ops, regs, inputs, netHw, adcHw, out>>

\* adc.clksw.setSwitch("b"), continuing at next
setSwitch(next) ==
    /\ Call(Op("setSwitch", "b", 0, {}))
    /\ clksw' = "b"
    /\ Goto(next)
    /\ UNCHANGED <<regs, inputs, netHw, adcSel, demux, out>>

\* adc.selectADC(chips), continuing at next
selectADC(chips, next) ==
    /\ Call(Op("selectADC", "", 0, chips))
    /\ adcSel' = chips
    /\ Goto(next)
    /\ UNCHANGED <<regs, inputs, netHw, demux, clksw, out>>

\* a call on the selected ADC chips that changes nothing this model tracks
adcCall(name, reg, val, next) ==
    /\ Call(Op(name, reg, val, {}))
    /\ Goto(next)
    /\ UNCHANGED <<regs, inputs, netHw, adcHw, out>>

\* adc.setDemux(numChannel=n), continuing at next
setDemux(n, next) ==
    /\ Call(Op("setDemux", "", n, {}))
    /\ demux' = n
    /\ Goto(next)
    /\ UNCHANGED <<regs, inputs, netHw, adcSel, clksw, out>>

ClkSwitchFirst == pc = "clksw_1" /\ setSwitch("adc_reset")

AdcReset == pc = "adc_reset" /\ adcCall("reset", "", 0, "select_all_1")

SelectAllFirst == pc = "select_all_1" /\ selectADC(AllChips, "adc_init")

AdcInit == pc = "adc_init" /\ adcCall("init", "", 0, "select_12")

SelectClockSlaves == pc = "select_12" /\ selectADC({1, 2}, "term")

WriteTermination == pc = "term" /\ adcCall("write", "en_lvds_term", 0, "drive")

WriteDriveStrength == pc = "drive" /\ adcCall("write", "ilvds_lclk", 0, "select_all_2")

SelectAllSecond_missing ==
    /\ pc = "select_all_2"
    /\ Goto("operating_mode")
    /\ UNCHANGED <<ops, regs, inputs, netHw, adcHw, out>>

SelectAllSecond == pc = "select_all_2" /\ selectADC(AllChips, "operating_mode")

SetOperatingMode ==
    /\ pc = "operating_mode"
    /\ adcCall("setOperatingMode", "", channels, "prog_user_image")

\* client.transport.prog_user_image(): the FPGA is programmed again, which
\* clears its registers and the state of its cores, the clock switch included
ProgUserImage ==
    /\ pc = "prog_user_image"
    /\ Call(Op("prog_user_image", "", 0, {}))
    /\ regs' = PowerOnRegs
    /\ linkup' = 0 /\ tx_overflow' = 0 /\ settled' = FALSE
    /\ adcSel' = {} /\ demux' = 0 /\ clksw' = "unset"
    /\ Goto("select_all_3")
    /\ UNCHANGED <<inputs, out>>

SelectAllThird == pc = "select_all_3" /\ selectADC(AllChips, "clksw_2")

ClkSwitchSecond_missing ==
    /\ pc = "clksw_2"
    /\ Goto("clear_retry")
    /\ UNCHANGED <<ops, regs, inputs, netHw, adcHw, out>>

ClkSwitchSecond == pc = "clksw_2" /\ setSwitch("clear_retry")

\* adc._retry_cnt = 0; adc.working_taps = {}: attributes nothing reads
ClearRetry ==
    /\ pc = "clear_retry"
    /\ Goto("demux_full")
    /\ UNCHANGED <<ops, regs, inputs, netHw, adcHw, out>>

SetDemuxFull_operational == pc = "demux_full" /\ setDemux(channels, "lock_check")

SetDemuxFull == pc = "demux_full" /\ setDemux(1, "lock_check")

\* the MMCM lock check: setup_adcs returns False when the word reads 0
LockCheck ==
    /\ pc = "lock_check"
    /\ \E word \in 0 .. MaxLockWord :
         /\ Call(Op("getWord", "ADC16_LOCKED", word, {}))
         /\ IF NotLocked(word)
              THEN /\ Log(Line("error", "MMCM not locked.", {}))
                   /\ adcRet' = "False"
                   /\ Goto(Return("adc_check"))
              ELSE /\ Goto("align_line")
                   /\ UNCHANGED <<log, adcRet>>
    /\ UNCHANGED <<regs, inputs, netHw, adcHw>>

LogFails_several(pass, fails) ==
    IF Cardinality(fails) > 1
      THEN Log(Line("warning", pass, fails))
      ELSE UNCHANGED log

\* the warning logged when a pass returns a nonempty failure set
LogFails(pass, fails) ==
    IF Cardinality(fails) > 0
      THEN Log(Line("warning", pass, fails))
      ELSE UNCHANGED log

\* one of alignLineClock, alignFrameClock, rampTest, continuing at next
alignPass(pass, next) ==
    /\ \E fails \in SUBSET Lanes :
         /\ Call(Op(pass, "", 0, fails))
         /\ LogFails(pass, fails)
    /\ Goto(next)
    /\ UNCHANGED <<regs, inputs, netHw, adcHw, adcRet>>

AlignLineClock == pc = "align_line" /\ alignPass("alignLineClock", "align_frame")

AlignFrameClock == pc = "align_frame" /\ alignPass("alignFrameClock", "ramp_test")

RampTest == pc = "ramp_test" /\ alignPass("rampTest", "restore_demux")

RestoreDemux == pc = "restore_demux" /\ setDemux(channels, "select_input")

SelectInput ==
    /\ pc = "select_input"
    /\ Call(Op("selectInput", "", 1, {}))
    /\ Log(Line("info", "ADCs configured", {}))
    /\ Goto("set_gain")
    /\ UNCHANGED <<regs, inputs, netHw, adcHw, adcRet>>

\* adc.set_gain(4), after which setup_adcs falls off its end
SetGain ==
    /\ pc = "set_gain"
    /\ Call(Op("set_gain", "", AdcGain, {}))
    /\ adcRet' = "None"
    /\ Goto(Return("adc_check"))
    /\ UNCHANGED <<regs, inputs, netHw, adcHw, log>>

----------------------------------------------------------------------------
(* the end of startup *)

EstimateClock ==
    /\ pc = "estimate_clock"
    /\ Call(Op("estimate_fpga_clock", "", 0, {}))
    /\ Goto("complete")
    /\ UNCHANGED <<regs, inputs, netHw, adcHw, out>>

LogComplete ==
    /\ pc = "complete"
    /\ Log(Line("success", "Setup complete", {}))
    /\ Goto("done")
    /\ UNCHANGED <<ops, regs, inputs, netHw, adcHw, adcRet>>

TransportFault_swallowed ==
    /\ pc \in HwSteps
    /\ exc' = "TransportError"
    /\ UNCHANGED <<pc, ops, regs, inputs, netHw, adcHw, out>>

\* a call into the board raises instead of returning
TransportFault ==
    /\ pc \in HwSteps
    /\ Raise("TransportError")
    /\ UNCHANGED <<ops, regs, inputs, netHw, adcHw, out>>

Next ==
    \/ Connect \/ Upload \/ GetSystemInformation
    \/ TengbeCheck \/ TxDisable \/ ConfigureCore \/ WriteDestPort
    \/ WriteDestIp \/ SetArp \/ TxRstAssert \/ TxRstDeassert \/ TxEnable
    \/ SettleWait \/ ReadLinkup
    \/ WriteFftShift \/ chan_1_select \/ chan_2_select \/ SetRequantGain
    \/ AdcCheck \/ ClkSwitchFirst \/ AdcReset \/ SelectAllFirst \/ AdcInit
    \/ SelectClockSlaves \/ WriteTermination \/ WriteDriveStrength
    \/ SelectAllSecond \/ SetOperatingMode \/ ProgUserImage
    \/ SelectAllThird \/ ClkSwitchSecond \/ ClearRetry \/ SetDemuxFull
    \/ LockCheck \/ AlignLineClock \/ AlignFrameClock \/ RampTest
    \/ RestoreDemux \/ SelectInput \/ SetGain
    \/ EstimateClock \/ LogComplete
    \/ TransportFault

Spec == Init /\ [][Next]_vars

----------------------------------------------------------------------------
(* set_requant_gain on its own, for every gain near the ends of its range *)

\* the denominators of the gains tried: whole gains, gains whose product
\* with 32 falls half way between two integers, and decimal gains
GainDens == {1, 64, 100}

\* the numerators tried for the denominator d: the gains from -GainMargin/d
\* to GainMargin, and those from 2047 - GainMargin to 2047 + GainMargin/d
GainNums(d) ==
    (-GainMargin .. GainMargin * d)
      \cup ((GainLimit - GainMargin) * d .. GainLimit * d + GainMargin)

GainInputs == UNION {{[n |-> n, d |-> d] : n \in GainNums(d)} : d \in GainDens}

GainCall ==
    /\ pc = "gain_call"
    /\ set_requant_gain(gain, "gain_returned")

InitGain ==
    /\ pc = "gain_call"
    /\ exc = "none"
    /\ ops = <<>>
    /\ log = <<>>
    /\ regs \in {PowerOnRegs, [PowerOnRegs EXCEPT !["requant_gain"] = 32]}
    /\ adcRet = "pending"
    /\ gbeStatus = "known"
    /\ adcStatus = "known"
    /\ channels = 2
    /\ dest_ip = <<10, 0, 0, 1>>
    /\ gain \in GainInputs
    /\ linkup = 0
    /\ tx_overflow = 0
    /\ settled = FALSE
    /\ adcSel = {}
    /\ demux = 0
    /\ clksw = "unset"

NextGain == GainCall

SpecGain == InitGain /\ [][NextGain]_vars

----------------------------------------------------------------------------
(* startup of the package snap_bringup: program, calibrate the ADCs through *)
(* the library's own init, then route the channels and estimate the clock  *)

\* the default of --gain
BringupGain == 50

BringupStages_routing_first ==
    <<"b_connect", "b_chan_1_select", "b_adc_lookup", "b_estimate_clock">>

\* the calls of snap_bringup's startup, in order
BringupStages == <<"b_connect", "b_adc_lookup", "b_chan_1_select",
                   "b_estimate_clock">>

BringupReturn(entry) ==
    LET i == CHOOSE k \in DOMAIN BringupStages : BringupStages[k] = entry
    IN  BringupStages[i + 1]

BringupHwSteps == {"b_connect", "b_upload", "b_get_system_information",
                   "b_select_all_1", "b_adc_init", "b_ramp_test",
                   "b_select_0", "b_select_input_0", "b_select_1",
                   "b_select_input_1", "b_select_all_2", "b_set_gain",
                   "b_chan_1_select", "b_chan_2_select", "b_estimate_clock"}

InitBringup ==
    /\ pc = BringupStages[1]
    /\ exc = "none"
    /\ ops = <<>>
    /\ log = <<>>
    /\ regs = PowerOnRegs
    /\ adcRet = "pending"
    /\ gbeStatus = "known"
    /\ adcStatus \in {"none", "unknown", "noadc", "known"}
    /\ channels \in Channels
    /\ dest_ip = <<10, 0, 0, 1>>
    /\ gain = StartupGain
    /\ linkup = 0
    /\ tx_overflow = 0
    /\ settled = FALSE
    /\ adcSel = {}
    /\ demux = 0
    /\ clksw = "unset"

BringupConnect ==
    /\ pc = "b_connect"
    /\ Call(Op("connect", "", 0, {}))
    /\ Goto("b_upload")
    /\ UNCHANGED <<regs, inputs, netHw, adcHw, out>>

BringupUpload ==
    /\ pc = "b_upload"
    /\ Call(Op("upload_to_ram_and_program", "", 0, {}))
    /\ regs' = PowerOnRegs
    /\ linkup' = 0 /\ tx_overflow' = 0 /\ settled' = FALSE
    /\ adcSel' = {} /\ demux' = 0 /\ clksw' = "unset"
    /\ Log(Line("success", "SNAP programmed", {}))
    /\ Goto("b_get_system_information")
    /\ UNCHANGED <<inputs, adcRet>>

BringupGetSystemInformation ==
    /\ pc = "b_get_system_information"
    /\ Call(Op("get_system_information", "", 0, {}))
    /\ Goto(BringupReturn("b_connect"))
    /\ UNCHANGED <<regs, inputs, netHw, adcHw, out>>

\* adc = client.adcs[adc_name]; adc.ref = None
BringupAdcLookup ==
    /\ pc = "b_adc_lookup"
    /\ CASE adcStatus = "none"    -> Raise("TypeError: no ADCs")
         [] adcStatus = "unknown" -> Raise("KeyError: unknown ADC")
         [] OTHER                 -> Goto("b_select_all_1")
    /\ UNCHANGED <<ops, regs, inputs, netHw, adcHw, out>>

BringupSelectAllFirst == pc = "b_select_all_1" /\ selectADC(AllChips, "b_adc_init")

\* adc.init(sample_rate=500, numChannel=channels): the library's own
\* calibration, of which only the call is modelled
BringupAdcInit == pc = "b_adc_init" /\ adcCall("init", "", channels, "b_ramp_test")

\* adc.rampTest(retry=True), whose result is dropped
BringupRampTest ==
    /\ pc = "b_ramp_test"
    /\ \E fails \in SUBSET Lanes : Call(Op("rampTest", "", 0, fails))
    /\ Goto("b_select_0")
    /\ UNCHANGED <<regs, inputs, netHw, adcHw, out>>

BringupSelectChip0 == pc = "b_select_0" /\ selectADC({0}, "b_select_input_0")

\* adc.adc.selectInput, which needs adc.adc
BringupSelectInput(val, next) ==
    IF adcStatus = "noadc"
      THEN /\ Raise("AttributeError: adc.adc is None")
           /\ UNCHANGED <<ops, regs, inputs, netHw, adcHw, out>>
      ELSE adcCall("selectInput", "", val, next)

BringupSelectInput0 ==
    pc = "b_select_input_0" /\ BringupSelectInput(1122, "b_select_1")

BringupSelectChip1 == pc = "b_select_1" /\ selectADC({1}, "b_select_input_1")

BringupSelectInput1 ==
    pc = "b_select_input_1" /\ BringupSelectInput(2233, "b_select_all_2")

BringupSelectAllSecond == pc = "b_select_all_2" /\ selectADC(AllChips, "b_set_gain")

BringupSetGain ==
    /\ pc = "b_set_gain"
    /\ Call(Op("set_gain", "", BringupGain, {}))
    /\ Log(Line("success", "ADCs configured", {}))
    /\ adcRet' = "None"
    /\ Goto(BringupReturn("b_adc_lookup"))
    /\ UNCHANGED <<regs, inputs, netHw, adcHw>>

BringupChan1Select ==
    /\ pc = "b_chan_1_select"
    /\ write_int("ch_1_sel", A1_2)
    /\ Goto("b_chan_2_select")
    /\ UNCHANGED <<inputs, netHw, adcHw, out>>

BringupChan2Select ==
    /\ pc = "b_chan_2_select"
    /\ write_int("ch_2_sel", B1_2)
    /\ Goto(BringupReturn("b_chan_1_select"))
    /\ UNCHANGED <<inputs, netHw, adcHw, out>>

BringupEstimateClock ==
    /\ pc = "b_estimate_clock"
    /\ Call(Op("estimate_fpga_clock", "", 0, {}))
    /\ Goto("b_complete")
    /\ UNCHANGED <<regs, inputs, netHw, adcHw, out>>

BringupLogComplete ==
    /\ pc = "b_complete"
    /\ Log(Line("success", "Setup complete", {}))
    /\ Goto("b_done")
    /\ UNCHANGED <<ops, regs, inputs, netHw, adcHw, adcRet>>

BringupTransportFault ==
    /\ pc \in BringupHwSteps
    /\ Raise("TransportError")
    /\ UNCHANGED <<ops, regs, inputs, netHw, adcHw, out>>

NextBringup ==
    \/ BringupConnect \/ BringupUpload \/ BringupGetSystemInformation
    \/ BringupAdcLookup \/ BringupSelectAllFirst \/ BringupAdcInit
    \/ BringupRampTest \/ BringupSelectChip0 \/ BringupSelectInput0
    \/ BringupSelectChip1 \/ BringupSelectInput1 \/ BringupSelectAllSecond
    \/ BringupSetGain \/ BringupChan1Select \/ BringupChan2Select
    \/ BringupEstimateClock \/ BringupLogComplete \/ BringupTransportFault

SpecBringup == InitBringup /\ [][NextBringup]_vars

\* either entry point
InitBoth == Init \/ InitBringup

NextBoth == Next \/ NextBringup

SpecBoth == InitBoth /\ [][NextBoth]_vars

----------------------------------------------------------------------------
(* Vocabulary of the properties, read off the two logs *)

Idx == DOMAIN ops

Range(f) == {f[i] : i \in DOMAIN f}

ProgramOps == {"connect", "upload_to_ram_and_program", "get_system_information"}
NetworkOps == {"configure_core", "set_single_arp_entry", "read_int"}
NetworkRegs == {"tx_en", "tx_rst", "dest_port", "dest_ip"}
StaticRegs == {"fft_shift", "ch_1_sel", "ch_2_sel", "requant_gain"}
AlignOps == {"alignLineClock", "alignFrameClock", "rampTest"}
BondOps == {"isLaneBonded"}

\* the stage a call on the board belongs to: 1 Program, 2 NetworkBringup,
\* 3 StaticRegisterConfig, 4 AdcCalibration, 5 ClockEstimate
StageOf(o) ==
    CASE o.op \in ProgramOps -> 1
      [] o.op \in NetworkOps -> 2
      [] o.op = "write_int" /\ o.reg \in NetworkRegs -> 2
      [] o.op = "write_int" /\ o.reg \in StaticRegs -> 3
      [] o.op = "estimate_fpga_clock" -> 5
      [] OTHER -> 4

\* the call that opens a stage
Opens(o) ==
    \/ o.op = "connect"
    \/ o.op = "write_int" /\ o.reg = "tx_en" /\ o.val = 0
    \/ o.op = "write_int" /\ o.reg = "fft_shift"
    \/ o.op = "reset"
    \/ o.op = "estimate_fpga_clock"

IsLockRead(o) == o.op = "getWord" /\ o.reg = "ADC16_LOCKED"
IsLinkRead(o) == o.op = "read_int" /\ o.reg = "gbe1_linkup"

\* the call that completes a stage
Closes(o) ==
    \/ o.op = "get_system_information"
    \/ IsLinkRead(o)
    \/ o.op = "write_int" /\ o.reg = "requant_gain"
    \/ o.op = "set_gain"
    \/ IsLockRead(o) /\ o.val = 0
    \/ o.op = "estimate_fpga_clock"

Logged(level, msg) == \E l \in Range(log) : l.level = level /\ l.msg = msg

ReportedComplete == Logged("success", "Setup complete")

----------------------------------------------------------------------------
(* The stages of a run *)

\* C1: the calls on the board are made stage by stage in the order Program,
\* NetworkBringup, StaticRegisterConfig, AdcCalibration, ClockEstimate: the
\* first call is of Program, the stage of the calls never decreases, a stage
\* begins only right after the call that completes the stage before it, and
\* no stage is opened or completed twice.
StageOrder ==
    LET openers == {i \in Idx : Opens(ops[i])}
        closers == {i \in Idx : Closes(ops[i])}
    IN  /\ ops # <<>> => StageOf(ops[1]) = 1
        /\ \A j \in Idx \ {1} :
             \/ StageOf(ops[j]) = StageOf(ops[j - 1])
             \/ /\ StageOf(ops[j]) = StageOf(ops[j - 1]) + 1
                /\ Closes(ops[j - 1])
        /\ \A i, j \in openers : StageOf(ops[i]) = StageOf(ops[j]) => i = j
        /\ \A i, j \in closers : StageOf(ops[i]) = StageOf(ops[j]) => i = j

\* a run that went through all five stages
StageOrderWitness ==
    /\ pc = "done"
    /\ \A k \in 1 .. 5 : \E i \in Idx : StageOf(ops[i]) = k

----------------------------------------------------------------------------
(* The lock check *)

LockReadFalse == \E i \in Idx : IsLockRead(ops[i]) /\ ops[i].val = 0

\* C2: once the lock word has read 0, setup_adcs has returned False with the
\* error logged, and no line-clock alignment, frame-clock alignment, ramp
\* test or lane-bonding call follows the failed check.
LockFailIsFatal ==
    \A i \in Idx : (IsLockRead(ops[i]) /\ ops[i].val = 0) =>
        /\ adcRet = "False"
        /\ Logged("error", "MMCM not locked.")
        /\ \A j \in Idx : j > i => ops[j].op \notin AlignOps \cup BondOps

\* the lock word read 0 and the run went on to make another call
LockFailWitness ==
    \E i \in Idx : IsLockRead(ops[i]) /\ ops[i].val = 0 /\ Len(ops) > i

\* C3: when the lock check has failed the run ends there: the clock estimate
\* is never made and the run is never reported complete.
LockFailEndsRun ==
    LockReadFalse =>
        /\ \A i \in Idx : ops[i].op # "estimate_fpga_clock"
        /\ ~ReportedComplete

\* C6: the calibration is declared failed only after three attempts, each
\* begun again at the reset, and never makes more than three.
CalibrationRetriesThrice ==
    LET resets == {i \in Idx : ops[i].op = "reset"}
        checks == {i \in Idx : IsLockRead(ops[i])}
    IN  /\ Cardinality(checks) <= 3
        /\ Cardinality(resets) <= 3
        /\ adcRet = "False" =>
             Cardinality(checks) = 3 /\ Cardinality(resets) = 3

----------------------------------------------------------------------------
(* The link *)

\* C4: when the link word has read 0 the run ends there: no static register
\* is written and no ADC call is made after the poll.
LinkDownEndsRun ==
    \A i \in Idx : (IsLinkRead(ops[i]) /\ ops[i].val = 0) =>
        \A j \in Idx : j > i => StageOf(ops[j]) \notin {3, 4}

\* C5: with the overflow counter nonzero at the link poll, the only call
\* that follows the poll is the read of the counter, and the run is aborted
\* before the next stage.
OverflowIsFatal ==
    \A i \in Idx : (IsLinkRead(ops[i]) /\ tx_overflow # 0) =>
        \A j \in Idx : j > i =>
            /\ ops[j].op = "read_int"
            /\ ops[j].val = tx_overflow

----------------------------------------------------------------------------
(* Degraded calibration *)

\* C9: a failure set that is not empty, returned by an alignment pass or by
\* the ramp test, is logged as a warning naming its lanes and fails nothing:
\* setup_adcs does not return False, no exception but a transport error ends
\* the run, and a run that ends without one has restored the demux factor,
\* selected the inputs, set the gain and estimated the clock, in that order,
\* and is reported complete.
DegradedCalibrationProceeds ==
    \A i \in Idx : (ops[i].op \in AlignOps /\ ops[i].lanes # {}) =>
        /\ \E l \in Range(log) :
               l.level = "warning" /\ l.msg = ops[i].op /\ l.lanes = ops[i].lanes
        /\ adcRet # "False"
        /\ exc \in {"none", "TransportError"}
        /\ pc = "done" =>
             /\ \E a \in Idx :
                  /\ i < a /\ ops[a].op = "setDemux" /\ ops[a].val = channels
                  /\ \E b \in Idx :
                       /\ a < b /\ ops[b].op = "selectInput"
                       /\ \E c \in Idx :
                            /\ b < c /\ ops[c].op = "set_gain"
                            /\ \E d \in Idx :
                                 c < d /\ ops[d].op = "estimate_fpga_clock"
             /\ ReportedComplete

\* a complete run whose line-clock alignment failed on some lane
DegradedCalibrationWitness ==
    /\ pc = "done"
    /\ \E i \in Idx : ops[i].op = "alignLineClock" /\ ops[i].lanes # {}

----------------------------------------------------------------------------
(* Unknown names *)

\* C10: a run ended by an unknown 10 GbE core name or an unknown ADC name
\* has made no call on the board.
UnknownNameNoHardware ==
    exc \in {"KeyError: unknown 10 GbE core", "AssertionError: unknown ADC"}
        => ops = <<>>

----------------------------------------------------------------------------
(* The quantizer gain *)

\* the largest value of a register of GainIntBits + GainFracBits bits
RegMax == 2 ^ (GainIntBits + GainFracBits) - 1

Clamp(x) == IF x > RegMax THEN RegMax ELSE IF x < 0 THEN 0 ELSE x

Abs(x) == IF x < 0 THEN -x ELSE x

\* x is the integer nearest to n/d, the even one when two are
IsRounded(x, n, d) ==
    /\ 2 * Abs(x * d - n) <= d
    /\ 2 * Abs(x * d - n) = d => x % 2 = 0

\* C7: called with a gain outside the open interval (0, 2047), ends included,
\* set_requant_gain raises its assertion error, makes no call on the board
\* and leaves every register as it was.
GainRejected ==
    [][(pc = "gain_call" /\ (gain.n <= 0 \/ gain.n >= 2047 * gain.d)) =>
          /\ exc' = "AssertionError: gain"
          /\ ops' = ops
          /\ regs' = regs]_vars

\* the call with gain 2047 was rejected
GainRejectedWitness ==
    pc = "raised" /\ gain.n = 2047 * gain.d

\* C8: called with a gain strictly inside (0, 2047), set_requant_gain writes
\* to requant_gain the value round(gain * 32) clamped to the width of the
\* register, a value the register can hold, and writes nothing else.
GainWritten ==
    (pc = "gain_returned" /\ 0 < gain.n /\ gain.n < 2047 * gain.d) =>
        /\ Len(ops) = 1
        /\ ops[1].op = "write_int" /\ ops[1].reg = "requant_gain"
        /\ ops[1].val = regs["requant_gain"]
        /\ \E x \in (32 * gain.n) \div gain.d .. (32 * gain.n) \div gain.d + 1 :
               /\ IsRounded(x, 32 * gain.n, gain.d)
               /\ regs["requant_gain"] = Clamp(x)
        /\ regs["requant_gain"] <= RegMax

\* a gain whose product with 32 is not whole was written, rounded up
GainWrittenWitness ==
    /\ pc = "gain_returned"
    /\ (32 * gain.n) % gain.d # 0
    /\ regs["requant_gain"] = (32 * gain.n) \div gain.d + 1

----------------------------------------------------------------------------
(* The verdict of a calibration attempt *)

\* setup_adcs ran to its end and logged no warning
CalibrationSuccess ==
    adcRet = "None" /\ ~\E l \in Range(log) : l.level = "warning"

\* C11: a calibration attempt succeeds only if the lock word read true,
\* the three failure sets are empty, and a lane-bonding check made after
\* the ramp test and before the demux factor is restored returned true.
SuccessNeedsLaneBond ==
    CalibrationSuccess =>
        /\ \E i \in Idx : IsLockRead(ops[i]) /\ ops[i].val # 0
        /\ \A i \in Idx : ops[i].op \in AlignOps => ops[i].lanes = {}
        /\ \E r \in Idx :
             /\ ops[r].op = "rampTest"
             /\ \E b \in Idx :
                  /\ r < b /\ ops[b].op \in BondOps /\ ops[b].val = 1
                  /\ \E d \in Idx : b < d /\ ops[d].op = "setDemux"

----------------------------------------------------------------------------
(* The order of network bring-up *)

\* the index of the last call that programmed the FPGA, 0 when none did
LastProgrammed ==
    LET progs == {i \in Idx : ops[i].op \in {"upload_to_ram_and_program",
                                              "prog_user_image"}}
    IN  IF progs = {} THEN 0 ELSE CHOOSE i \in progs : \A k \in progs : k <= i

\* the destination address as the integer its register holds
DestIpWord ==
    dest_ip[1] * 16777216 + dest_ip[2] * 65536 + dest_ip[3] * 256 + dest_ip[4]

IsWrite(o, reg, val) == o.op = "write_int" /\ o.reg = reg /\ o.val = val

\* C12: every call of network bring-up follows the write of 0 to tx_en, and
\* whenever tx_en holds 1 the core has been configured, dest_port and
\* dest_ip hold the destination, its ARP entry has been inserted, all since
\* the FPGA was last programmed, and tx_rst holds 0.
TxEnabledOnlyConfigured ==
    /\ \A j \in Idx : StageOf(ops[j]) = 2 =>
         \E i \in Idx : i <= j /\ IsWrite(ops[i], "tx_en", 0)
    /\ regs["tx_en"] = 1 =>
         /\ \E i \in Idx : i > LastProgrammed /\ ops[i].op = "configure_core"
         /\ \E i \in Idx : i > LastProgrammed /\ IsWrite(ops[i], "dest_port", 60000)
         /\ \E i \in Idx : i > LastProgrammed /\ IsWrite(ops[i], "dest_ip", DestIpWord)
         /\ \E i \in Idx : /\ i > LastProgrammed
                           /\ ops[i].op = "set_single_arp_entry"
                           /\ ops[i].val = DestIpWord
         /\ regs["dest_port"] = 60000
         /\ regs["dest_ip"] = DestIpWord
         /\ regs["tx_rst"] = 0

\* the transmit path has just been enabled
TxEnabledWitness ==
    regs["tx_en"] = 1 /\ pc = "settle"

\* how many calls of the log satisfy P
Count(P(_)) == Cardinality({i \in Idx : P(ops[i])})

IsTxDisable(o) == IsWrite(o, "tx_en", 0)
IsConfigure(o) == o.op = "configure_core"
IsDestPort(o) == o.op = "write_int" /\ o.reg = "dest_port"
IsDestIp(o) == o.op = "write_int" /\ o.reg = "dest_ip"
IsArp(o) == o.op = "set_single_arp_entry"
IsRstAssert(o) == IsWrite(o, "tx_rst", 1)
IsRstDeassert(o) == IsWrite(o, "tx_rst", 0)
IsTxEnable(o) == IsWrite(o, "tx_en", 1)

\* no step of network bring-up is repeated; the write of 1 to tx_en comes
\* right after the reset pulse, which comes right after the ARP entry; the
\* link poll comes right after the write of 1 to tx_en and before any write
\* of a static register
NetStepsOnce ==
    /\ Count(IsTxDisable) <= 1 /\ Count(IsConfigure) <= 1
    /\ Count(IsDestPort) <= 1 /\ Count(IsDestIp) <= 1 /\ Count(IsArp) <= 1
    /\ Count(IsRstAssert) <= 1 /\ Count(IsRstDeassert) <= 1
    /\ Count(IsTxEnable) <= 1 /\ Count(IsLinkRead) <= 1
    /\ \A k \in Idx : IsTxEnable(ops[k]) =>
         /\ k > 3
         /\ IsRstDeassert(ops[k - 1])
         /\ IsRstAssert(ops[k - 2])
         /\ IsArp(ops[k - 3])
    /\ \A k \in Idx : IsLinkRead(ops[k]) => k > 1 /\ IsTxEnable(ops[k - 1])
    /\ \A k \in Idx : StageOf(ops[k]) = 3 =>
         \E i \in Idx : i < k /\ IsLinkRead(ops[i])

\* C13: in network bring-up tx_rst is written 1 then 0 exactly once, after
\* the ARP entry and before tx_en is written 1; the link word is polled
\* exactly once, with tx_en holding 1 and after the settle wait; no step of
\* network bring-up is repeated.
NetworkStepsOnce ==
    [][/\ NetStepsOnce'
       /\ (Len(ops') = Len(ops) + 1 /\ IsLinkRead(ops'[Len(ops')])) =>
             settled /\ regs["tx_en"] = 1]_vars

\* the link word has been polled
NetworkStepsWitness ==
    \E i \in Idx : IsLinkRead(ops[i]) /\ ops[i].val = 1

----------------------------------------------------------------------------
(* The order of a calibration attempt *)

Before(j, P(_)) == \E i \in Idx : i < j /\ P(ops[i])

IsReset(o) == o.op = "reset"
IsSetDemux(o) == o.op = "setDemux"
IsAlignLine(o) == o.op = "alignLineClock"
IsAlignFrame(o) == o.op = "alignFrameClock"
IsRamp(o) == o.op = "rampTest"
IsSelectInput(o) == o.op = "selectInput"

\* C14: a calibration attempt makes its calls in the order reset, demux to
\* full interleave, lock check, line-clock alignment, frame-clock alignment,
\* ramp test, demux to the configured channel count, input selection and
\* gain; every alignment pass and the ramp test run with demux factor 1,
\* and the demux factor leaves 1 only after the ramp test.
CalibrationOrder ==
    /\ \A j \in Idx :
         /\ IsSetDemux(ops[j]) =>
              \/ ~Before(j, IsSetDemux) /\ ops[j].val = 1 /\ Before(j, IsReset)
              \/ Before(j, IsRamp) /\ ops[j].val = channels
         /\ IsLockRead(ops[j]) => Before(j, IsSetDemux)
         /\ IsAlignLine(ops[j]) => Before(j, IsLockRead)
         /\ IsAlignFrame(ops[j]) => Before(j, IsAlignLine)
         /\ IsRamp(ops[j]) => Before(j, IsAlignFrame)
         /\ IsSelectInput(ops[j]) =>
              \E i \in Idx : i < j /\ IsSetDemux(ops[i]) /\ Before(i, IsRamp)
         /\ ops[j].op = "set_gain" => Before(j, IsSelectInput)
         /\ ops[j].op \in AlignOps => ops[j].demux = 1
    /\ demux \notin {0, 1} => \E i \in Idx : IsRamp(ops[i])

\* a complete run with two channels, whose demux factor was restored to 2
CalibrationOrderWitness ==
    /\ pc = "done"
    /\ channels = 2 /\ demux = 2
    /\ \E i \in Idx : ops[i].op = "set_gain"

----------------------------------------------------------------------------
(* What is redone after the FPGA is programmed *)

IsUpload(o) == o.op = "upload_to_ram_and_program"
IsProgramming(o) == o.op \in {"upload_to_ram_and_program", "prog_user_image"}
IsNamedAccess(o) == o.op \in {"write_int", "read_int", "getWord"}
IsResolve(o) == o.op = "get_system_information"
IsSetSwitch(o) == o.op = "setSwitch"

\* a call satisfying Did was made before call j, with no call satisfying
\* Undoes between it and j
Since(j, Did(_), Undoes(_)) ==
    \E i \in Idx :
        /\ i < j /\ Did(ops[i])
        /\ \A k \in Idx : (i < k /\ k < j) => ~Undoes(ops[k])

\* the clock switch has been set since the FPGA was last programmed, before
\* the lock check and every alignment pass
SwitchSetAgain ==
    \A j \in Idx : (IsLockRead(ops[j]) \/ ops[j].op \in AlignOps) =>
        Since(j, IsSetSwitch, IsProgramming)

\* C15, as claimed: the register map has been resolved since the FPGA was
\* last programmed, by the upload or by prog_user_image, before every read
\* or write of a named register, and the clock switch has been set again
\* before the lock check and every alignment pass.
ResolvedAfterEveryProgramming ==
    /\ \A j \in Idx : IsNamedAccess(ops[j]) => Since(j, IsResolve, IsProgramming)
    /\ SwitchSetAgain

\* C15, as amended: the register map has been resolved since the bitstream
\* was uploaded before every read or write of a named register;
\* prog_user_image is not followed by a resolve, but the clock switch has
\* been set again after it before the lock check and every alignment pass.
ResolvedAfterUpload ==
    /\ \A j \in Idx : IsNamedAccess(ops[j]) => Since(j, IsResolve, IsUpload)
    /\ \A j \in Idx : ops[j].op = "prog_user_image" =>
         \A k \in Idx : k > j => ~IsResolve(ops[k])
    /\ SwitchSetAgain

\* the lock word was read after the FPGA was programmed a second time
ResolvedAfterUploadWitness ==
    \E j \in Idx : /\ IsLockRead(ops[j])
                   /\ \E i \in Idx : i < j /\ ops[i].op = "prog_user_image"

----------------------------------------------------------------------------
(* Transport failures *)

\* each static register has been written at most once
StaticOnce ==
    \A r \in StaticRegs :
        Cardinality({i \in Idx : ops[i].op = "write_int" /\ ops[i].reg = r}) <= 1

\* C16: a transport failure ends the run where it happens: the call that
\* failed has no effect and is not made again, and no step follows the
\* failure; each static register is written at most once in a run.
TransportFailureAborts ==
    [][/\ exc # "TransportError"
       /\ exc' = "TransportError" =>
             pc' = "raised" /\ ops' = ops /\ regs' = regs
       /\ StaticOnce']_vars

\* a call of network bring-up failed
TransportFailureWitness ==
    /\ exc = "TransportError" /\ pc = "raised"
    /\ ops # <<>> /\ StageOf(ops[Len(ops)]) = 2
    /\ \A i \in Idx : ~IsLinkRead(ops[i])

----------------------------------------------------------------------------
(* The two entry points *)

IsCh1(o) == o.op = "write_int" /\ o.reg = "ch_1_sel"
IsCh2(o) == o.op = "write_int" /\ o.reg = "ch_2_sel"
IsAdcOp(o) == StageOf(o) = 4
IsSetGain(o) == o.op = "set_gain"

\* what both entry points do: every other call follows the resolve that
\* ends programming, ch_1_sel is written before ch_2_sel, and the clock
\* estimate is the last call
SharedOrder ==
    \A j \in Idx :
        /\ StageOf(ops[j]) # 1 => Before(j, IsResolve)
        /\ IsCh2(ops[j]) => Before(j, IsCh1)
        /\ ops[j].op = "estimate_fpga_clock" => j = Len(ops)

\* the run is one of snapctl, the entry point that brings up the network
NetworkBroughtUp == \E i \in Idx : StageOf(ops[i]) = 2

\* C17, as claimed: under either entry point programming comes first, the
\* channel routing is written, ch_1_sel then ch_2_sel, before any call of
\* ADC calibration, and the clock estimate comes last.
RoutingBeforeCalibration ==
    /\ SharedOrder
    /\ \A j \in Idx : IsAdcOp(ops[j]) => Before(j, IsCh2)

\* C17, as amended: under either entry point programming comes first,
\* ch_1_sel is written before ch_2_sel and the clock estimate comes last;
\* the channel routing is written before ADC calibration under snapctl and
\* after it, once the gain is set, under snap_bringup.
RoutingOrderPerEntryPoint ==
    /\ SharedOrder
    /\ \A j \in Idx :
         /\ (NetworkBroughtUp /\ IsAdcOp(ops[j])) => Before(j, IsCh2)
         /\ (~NetworkBroughtUp /\ (IsCh1(ops[j]) \/ IsCh2(ops[j]))) =>
              Before(j, IsSetGain)

\* a complete run of snap_bringup
RoutingOrderWitness ==
    /\ pc = "b_done"
    /\ \E j \in Idx : IsCh2(ops[j]) /\ Before(j, IsSetGain)

----------------------------------------------------------------------------
(* What holds when the run is reported complete *)

\* C18: no call programs the FPGA once a call of network bring-up or a
\* write of a static register has been made, and when the run is complete
\* the registers hold what those stages wrote.
ConfigurationSurvives ==
    /\ \A j \in Idx : IsProgramming(ops[j]) =>
         \A i \in Idx : i < j => StageOf(ops[i]) \notin {2, 3}
    /\ pc = "done" =>
         /\ regs["tx_en"] = 1 /\ regs["tx_rst"] = 0
         /\ regs["dest_ip"] = DestIpWord /\ regs["dest_port"] = 60000
         /\ regs["fft_shift"] = 4095
         /\ regs["ch_1_sel"] = 0 /\ regs["ch_2_sel"] = 2
         /\ regs["requant_gain"] = 32

\* C19: when the run is complete the ADC is in its operating configuration:
\* the demux factor is the configured channel count, the inputs have been
\* selected and the gain has been set.
OperatingConfigurationAtCompletion ==
    pc = "done" =>
        /\ demux = channels
        /\ \E i \in Idx : IsSelectInput(ops[i])
        /\ \E i \in Idx : IsSetGain(ops[i])

----------------------------------------------------------------------------
(* The chip selection *)

\* C20: the chip selection is narrowed only to chips 1 and 2 (snapctl) or to
\* chip 0 and to chip 1 (snap_bringup), and only for register writes and
\* input selection: the operating mode, the lock check, the alignment
\* passes, the ramp test and the gain are all done with every chip
\* selected, and a complete run leaves every chip selected.
SelectionWidenedAgain ==
    /\ \A j \in Idx :
         /\ ops[j].op = "selectADC" =>
              ops[j].lanes \in {AllChips, {1, 2}, {0}, {1}}
         /\ ops[j].op \in {"setOperatingMode", "getWord", "set_gain"} \cup AlignOps
              => ops[j].sel = AllChips
         /\ ops[j].sel \notin {AllChips, {}} =>
              ops[j].op \in {"write", "selectInput", "selectADC"}
    /\ pc \in {"done", "b_done"} => adcSel = AllChips

\* a complete run of snapctl that narrowed the selection and set the gain
SelectionWidenedWitness ==
    /\ pc = "done"
    /\ \E i \in Idx : ops[i].op = "selectADC" /\ ops[i].lanes = {1, 2}
    /\ \E i \in Idx : IsSetGain(ops[i]) /\ ops[i].sel = AllChips
====
